---- MODULE Spec2Model ----
(***************************************************************************)
(* A model of socket.io-redis (src/index.js): one Redis adapter per        *)
(* namespace and process, layered over the in-memory Adapter, exchanging   *)
(* broadcast envelopes and client-listing queries over redis pub/sub.      *)
(*                                                                         *)
(* Strings that the code concatenates or prefix-matches (channel names)    *)
(* are sequences of one-character strings, so that concatenation is \o and *)
(* String.prototype.startsWith is a prefix test on sequences.              *)
(***************************************************************************)
EXTENDS Integers, Sequences, FiniteSets, TLC

(***************************************************************************)
(* Bounds of the model.                                                    *)
(***************************************************************************)
\* What the environment does in one behaviour: calls of the application
\* (new Redis, add, del, delAll, broadcast, clients), commands that redis
\* refuses, publishes that fail, messages that the bus delivers a second
\* time, texts that are no requests, connections that break.
MaxEvents == 3
\* clients() calls in one behaviour (one more where calls run side by side)
MaxQueries == 1

\* The processes of the cluster; each one ran adapter(uri, opts) once.
Nodes == {"A", "B"}

\* The namespaces an application may create in a process (io.of(name)).
RootNsp == <<"/">>
ChatNsp == <<"/", "x">>
Nsps == {RootNsp, ChatNsp}

\* Room names; the second extends the first, to exercise channel matching.
Rooms == {<<"a">>, <<"a", "b">>}

\* The socket ids connected to each process.
SessionsOf(n) == IF n = "A" THEN {"s1", "s2"} ELSE {"s3"}

Sessions == UNION {SessionsOf(n) : n \in Nodes}

\* The namespaces for which a process may construct an adapter.
NspsOf(n) == IF n = "A" THEN Nsps ELSE {RootNsp}

(***************************************************************************)
(* Channel names.                                                          *)
(***************************************************************************)
\* opts.key || 'socket.io'
prefix == <<"s", "o", "c", "k", "e", "t", ".", "i", "o">>

\* this.channel = prefix + '#' + nsp.name + '#'
channel(nsp) == prefix \o <<"#">> \o nsp \o <<"#">>

\* prefix + '#' + this.nsp.name + '#' + room + '#'
roomChannel(nsp, room) == channel(nsp) \o room \o <<"#">>

\* matching by equality instead of by prefix
channelEquals(messageChannel, subscribedChannel) == messageChannel = subscribedChannel

\* messageChannel.startsWith(subscribedChannel)
channelMatches(messageChannel, subscribedChannel) ==
    /\ Len(subscribedChannel) <= Len(messageChannel)
    /\ SubSeq(messageChannel, 1, Len(subscribedChannel)) = subscribedChannel

\* uid2(6), drawn once per process; distinct processes draw distinct tokens.
uid(n) == <<"u", n>>

(***************************************************************************)
(* State.                                                                  *)
(***************************************************************************)
VARIABLES
    adapters,    \* adapters[n]: the namespaces for which n ran new Redis(nsp)
    rooms,       \* rooms[n][nsp]: this.rooms, room -> set of socket ids
    sids,        \* sids[n][nsp]: this.sids, socket id -> set of rooms
    subCmds,     \* subCmds[n]: commands sent on n's sub connection, unanswered
    subscribed,  \* subscribed[n]: channels redis holds for n's sub connection
    ticks,       \* ticks[n]: callbacks n queued with process.nextTick: k > 0
                 \* for next(null) of delAll number k, 0 for the caller's fn(null)
    delAlls,     \* the delAll calls made so far and their async.forEach state;
                 \* rejoined: add() was called for the id before the callback
    errors,      \* errors[n]: 'error' events emitted by n's adapters
    joined,      \* joined[n][nsp]: rooms that add() was ever called for
    nev,         \* number of events of the environment so far
    nfail        \* number of sub commands redis has refused so far

memVars == <<adapters, rooms, sids, subCmds, subscribed, ticks, delAlls,
             errors, joined, nev, nfail>>

VARIABLES
    bcasts,      \* the broadcast() calls of the application, in order, and
                 \* the channels each one published on
    applied,     \* applied[n][nsp]: the calls of Adapter.prototype.broadcast
    pubQ,        \* pubQ[n]: publishes sent on n's pub connection, not yet
                 \* carried out by redis
    inbox,       \* inbox[n]: messages redis sent to n's sub connection, not
                 \* yet emitted as subEvent
    npub,        \* npub[b]: pub.publish calls, by any node, carrying packet b
    echoes,      \* echoes[b]: envelopes of packet b dropped as 'same uid'
    faults       \* what the bus did wrong so far: messages delivered a
                 \* second time (dup) and publishes that failed (lost)

bcVars == <<bcasts, applied, pubQ, inbox, npub, echoes, faults>>

VARIABLES
    queries,     \* the clients() calls made so far: the variables of each
                 \* call's closures, its timer, its clientsSub connection
    syncInbox,   \* syncInbox[n]: requests redis sent to n's syncSub
                 \* connection, not yet emitted as subEvent
    respInbox,   \* respInbox[k]: responses redis sent to the clientsSub
                 \* connection of call k, not yet emitted as subEvent
    thrown       \* thrown[n]: the event handlers of n that an exception left

qVars == <<queries, syncInbox, respInbox, thrown>>

(***************************************************************************)
(* JavaScript objects used as maps: a function whose domain is the set of  *)
(* own keys.                                                               *)
(***************************************************************************)
NoKeys == [k \in {} |-> {}]

Put(f, k, v) == [x \in DOMAIN f \cup {k} |-> IF x = k THEN v ELSE f[x]]

Drop(f, k) == [x \in DOMAIN f \ {k} |-> f[x]]

\* f[k] || d
Get(f, k, d) == IF k \in DOMAIN f THEN f[k] ELSE d

\* The orders in which a for-each may visit the keys of an object.
Orders(S) == {q \in [1..Cardinality(S) -> S] : \A i, j \in 1..Cardinality(S) : q[i] = q[j] => i = j}

(***************************************************************************)
(* The in-memory Adapter that Redis inherits from (socket.io-adapter).     *)
(* st is the pair of maps [rooms, sids] of one adapter.                    *)
(***************************************************************************)
\* Adapter.prototype.add.call(this, id, room)
AdapterAdd(st, id, room) ==
    [rooms |-> Put(st.rooms, room, Get(st.rooms, room, {}) \cup {id}),
     sids  |-> Put(st.sids, id, Get(st.sids, id, {}) \cup {room})]

\* Adapter.prototype.del.call(this, id, room): an emptied room is deleted
AdapterDel(st, id, room) ==
    LET left == Get(st.rooms, room, {}) \ {id}
    IN  [rooms |-> IF left = {} THEN Drop(st.rooms, room) ELSE Put(st.rooms, room, left),
         sids  |-> Put(st.sids, id, Get(st.sids, id, {}) \ {room})]

State(n, nsp) == [rooms |-> rooms[n][nsp], sids |-> sids[n][nsp]]

(***************************************************************************)
(* Commands on the shared sub connection. cb names the continuation that   *)
(* the code passed: of the constructor, of add, of del called by the       *)
(* application, or of del called by delAll number da.                      *)
(***************************************************************************)
Cmd(op, chn, cb, nsp, da) == [op |-> op, chn |-> chn, cb |-> cb, nsp |-> nsp, da |-> da]

\* the channels n's sub connection ends up with once redis has carried out,
\* in the order sent, every command still unanswered
RECURSIVE AfterCmds(_, _)
AfterCmds(subs, cmds) ==
    IF cmds = <<>> THEN subs
    ELSE AfterCmds(IF Head(cmds).op = "subscribe" THEN subs \cup {Head(cmds).chn}
                   ELSE subs \ {Head(cmds).chn}, Tail(cmds))

(***************************************************************************)
(* new Redis(nsp), lines 71-104.                                           *)
(***************************************************************************)
NewRedis(n, nsp) ==
    /\ UNCHANGED bcVars
    /\ UNCHANGED qVars
    /\ nsp \in NspsOf(n) \ adapters[n]
    /\ adapters' = [adapters EXCEPT ![n] = @ \cup {nsp}]
    /\ subCmds' = [subCmds EXCEPT ![n] = Append(@, Cmd("subscribe", channel(nsp), "ctor", nsp, 0))]
    /\ nev' = nev + 1
    /\ UNCHANGED <<rooms, sids, subscribed, ticks, delAlls, errors, joined, nfail>>

(***************************************************************************)
(* Redis.prototype.add, lines 206-219.                                     *)
(***************************************************************************)
Add(n, nsp, id, room) ==
    /\ UNCHANGED bcVars
    /\ UNCHANGED qVars
    /\ nsp \in adapters[n]
    /\ LET st == AdapterAdd(State(n, nsp), id, room)
       IN  /\ rooms' = [rooms EXCEPT ![n][nsp] = st.rooms]
           /\ sids' = [sids EXCEPT ![n][nsp] = st.sids]
    /\ subCmds' = [subCmds EXCEPT ![n] = Append(@, Cmd("subscribe", roomChannel(nsp, room), "add", nsp, 0))]
    /\ joined' = [joined EXCEPT ![n][nsp] = @ \cup {room}]
    /\ delAlls' = [k \in 1..Len(delAlls) |->
          IF delAlls[k].n = n /\ delAlls[k].nsp = nsp /\ delAlls[k].id = id
                /\ delAlls[k].cbs = <<>>
          THEN [delAlls[k] EXCEPT !.rejoined = TRUE]
          ELSE delAlls[k]]
    /\ nev' = nev + 1
    /\ UNCHANGED <<adapters, subscribed, ticks, errors, nfail>>

\* del unsubscribing whenever the room existed, also when members remain
delUnsubNonEmpty(st, id, room) ==
    [st |-> AdapterDel(st, id, room), unsub |-> room \in DOMAIN st.rooms]

\* del without the hasRoom test of line 237
delNoHasRoom(st, id, room) ==
    LET st2 == AdapterDel(st, id, room)
    IN  [st |-> st2, unsub |-> room \notin DOMAIN st2.rooms]

(***************************************************************************)
(* Redis.prototype.del, lines 230-250. The result of the synchronous part: *)
(* the adapter's maps and whether an unsubscribe is sent (otherwise fn is  *)
(* queued with process.nextTick).                                          *)
(***************************************************************************)
del(st, id, room) ==
    LET hasRoom == room \in DOMAIN st.rooms
        st2 == AdapterDel(st, id, room)
    IN  [st |-> st2, unsub |-> hasRoom /\ room \notin DOMAIN st2.rooms]

Del(n, nsp, id, room) ==
    /\ UNCHANGED bcVars
    /\ UNCHANGED qVars
    /\ nsp \in adapters[n]
    /\ LET d == del(State(n, nsp), id, room)
       IN  /\ rooms' = [rooms EXCEPT ![n][nsp] = d.st.rooms]
           /\ sids' = [sids EXCEPT ![n][nsp] = d.st.sids]
           /\ subCmds' = [subCmds EXCEPT ![n] =
                 IF d.unsub THEN Append(@, Cmd("unsubscribe", roomChannel(nsp, room), "del", nsp, 0))
                 ELSE @]
           /\ ticks' = [ticks EXCEPT ![n] = IF d.unsub THEN @ ELSE Append(@, 0)]
    /\ nev' = nev + 1
    /\ UNCHANGED <<adapters, subscribed, delAlls, errors, joined, nfail>>

(***************************************************************************)
(* Redis.prototype.delAll, lines 260-282, with async.forEach: every del is *)
(* started in turn; a del that sends no unsubscribe completes on the next  *)
(* tick, the others when redis answers.                                    *)
(***************************************************************************)
RECURSIVE delEach(_, _, _)
delEach(st, id, q) ==
    IF q = <<>> THEN [st |-> st, unsubs |-> <<>>, nticks |-> 0]
    ELSE LET d == del(st, id, Head(q))
             r == delEach(d.st, id, Tail(q))
         IN  [st |-> r.st,
              unsubs |-> IF d.unsub THEN <<Head(q)>> \o r.unsubs ELSE r.unsubs,
              nticks |-> r.nticks + (IF d.unsub THEN 0 ELSE 1)]

\* a final callback that leaves the record of the id in place
delAllDoneKeeps(st, id) == st

\* the final callback of async.forEach without error: lines 279-280
delAllDone(st, id) == [rooms |-> st.rooms, sids |-> Drop(st.sids, id)]

\* next(err) of the iterator, as async.forEach counts it, for delAll number k
next(k, err) ==
    LET d == delAlls[k]
    IN  IF err
        THEN /\ delAlls' = [delAlls EXCEPT ![k].failed = TRUE,
                              ![k].cbs = IF d.failed THEN @ ELSE Append(@, "err")]
             /\ errors' = [errors EXCEPT ![d.n] = @ + 1 + (IF d.failed THEN 0 ELSE 1)]
             /\ UNCHANGED <<rooms, sids>>
        ELSE LET fin == d.completed + 1 >= d.total /\ ~d.failed
             IN  /\ delAlls' = [delAlls EXCEPT ![k].completed = @ + 1,
                                  ![k].cbs = IF fin THEN Append(@, "null") ELSE @]
                 /\ sids' = IF fin
                            THEN [sids EXCEPT ![d.n][d.nsp] = delAllDone(State(d.n, d.nsp), d.id).sids]
                            ELSE sids
                 /\ UNCHANGED <<rooms, errors>>

DelAll(n, nsp, id) ==
    /\ UNCHANGED bcVars
    /\ UNCHANGED qVars
    /\ nsp \in adapters[n]
    /\ nev' = nev + 1
    /\ IF id \notin DOMAIN sids[n][nsp]
       THEN \* if (!rooms): fn(null) on the next tick
            /\ ticks' = [ticks EXCEPT ![n] = Append(@, 0)]
            /\ UNCHANGED <<adapters, rooms, sids, subCmds, subscribed, delAlls,
                           errors, joined, nfail>>
       ELSE \E q \in Orders(sids[n][nsp][id]) :
              LET r == delEach(State(n, nsp), id, q)
                  k == Len(delAlls) + 1
                  now == q = <<>>
              IN  /\ rooms' = [rooms EXCEPT ![n][nsp] = r.st.rooms]
                  /\ sids' = [sids EXCEPT ![n][nsp] =
                                IF now THEN delAllDone(r.st, id).sids ELSE r.st.sids]
                  /\ subCmds' = [subCmds EXCEPT ![n] = @ \o
                        [i \in 1..Len(r.unsubs) |->
                            Cmd("unsubscribe", roomChannel(nsp, r.unsubs[i]), "delAll", nsp, k)]]
                  /\ ticks' = [ticks EXCEPT ![n] = @ \o [i \in 1..r.nticks |-> k]]
                  /\ delAlls' = Append(delAlls,
                        [n |-> n, nsp |-> nsp, id |-> id, total |-> Len(q), completed |-> 0,
                         failed |-> FALSE, cbs |-> IF now THEN <<"null">> ELSE <<>>,
                         rejoined |-> FALSE])
                  /\ UNCHANGED <<adapters, subscribed, errors, joined, nfail>>

\* a callback queued with process.nextTick runs: next(null) of delAll number
\* k > 0, or (0) the fn(null) of the application
RunTick(n) ==
    /\ UNCHANGED bcVars
    /\ UNCHANGED qVars
    /\ ticks[n] # <<>>
    /\ IF Head(ticks[n]) > 0 THEN next(Head(ticks[n]), FALSE)
       ELSE UNCHANGED <<rooms, sids, delAlls, errors>>
    /\ ticks' = [ticks EXCEPT ![n] = Tail(@)]
    /\ UNCHANGED <<adapters, subCmds, subscribed, joined, nev, nfail>>

(***************************************************************************)
(* Redis answers the oldest command of n's sub connection; the callbacks   *)
(* of lines 94-96, 211-218 and 239-246 run. Queued ticks run before any    *)
(* I/O callback.                                                           *)
(***************************************************************************)
SubAck(n) ==
    /\ UNCHANGED bcVars
    /\ UNCHANGED qVars
    /\ subCmds[n] # <<>>
    /\ ticks[n] = <<>>
    /\ LET c == Head(subCmds[n])
       IN  /\ subscribed' = [subscribed EXCEPT ![n] =
                               IF c.op = "subscribe" THEN @ \cup {c.chn} ELSE @ \ {c.chn}]
           /\ IF c.cb = "delAll" THEN next(c.da, FALSE)
              ELSE UNCHANGED <<rooms, sids, delAlls, errors>>
    /\ subCmds' = [subCmds EXCEPT ![n] = Tail(@)]
    /\ UNCHANGED <<adapters, ticks, joined, nev, nfail>>

SubFail(n) ==
    /\ UNCHANGED bcVars
    /\ UNCHANGED qVars
    /\ subCmds[n] # <<>>
    /\ ticks[n] = <<>>
    /\ nfail' = nfail + 1
    /\ nev' = nev + 1
    /\ LET c == Head(subCmds[n])
       IN  IF c.cb = "delAll" THEN next(c.da, TRUE)
           ELSE /\ errors' = [errors EXCEPT ![n] = @ + 1]
                /\ UNCHANGED <<rooms, sids, delAlls>>
    /\ subCmds' = [subCmds EXCEPT ![n] = Tail(@)]
    /\ UNCHANGED <<adapters, subscribed, ticks, joined>>

(***************************************************************************)
(* Broadcast envelopes.                                                    *)
(***************************************************************************)
\* the value of a property that was never set
Undefined == <<"undefined">>

\* msgpack.encode / msgpack.decode: a buffer holding the encoded value
encode(v) == [buffer |-> v]

decode(msg) == msg.buffer

\* the options objects the application passes: rooms absent, empty, or a list
RoomLists == {<<>>, <<(<<"a">>)>>, <<(<<"a">>), (<<"a", "b">>)>>}

Opts == {NoKeys} \cup {[k \in {"rooms"} |-> q] : q \in RoomLists}

\* Adapter.prototype.broadcast.call(this, packet, opts): the packet is
\* stamped with this namespace and handed to the local sockets
AdapterBroadcast(nsp, packet, opts) == [packet |-> [packet EXCEPT !.nsp = nsp], opts |-> opts]

\* broadcast publishing every envelope on the namespace channel, whatever
\* the rooms
publishesOnNamespace(n, packet, opts, remote) ==
    IF remote THEN <<>>
    ELSE LET chn == prefix \o <<"#">> \o packet.nsp \o <<"#">>
             msg == encode(<<uid(n), packet, opts>>)
         IN  IF "rooms" \in DOMAIN opts
             THEN [i \in 1..Len(opts.rooms) |-> [chn |-> chn, msg |-> msg]]
             ELSE <<[chn |-> chn, msg |-> msg]>>

\* broadcast without the test of the remote flag of line 183
publishesReplays(n, packet, opts, remote) ==
    LET chn == prefix \o <<"#">> \o packet.nsp \o <<"#">>
        msg == encode(<<uid(n), packet, opts>>)
    IN  IF "rooms" \in DOMAIN opts
        THEN [i \in 1..Len(opts.rooms) |->
                 [chn |-> chn \o opts.rooms[i] \o <<"#">>, msg |-> msg]]
        ELSE <<[chn |-> chn, msg |-> msg]>>

\* lines 183-194: what broadcast publishes, in order
publishes(n, packet, opts, remote) ==
    IF remote THEN <<>>
    ELSE LET chn == prefix \o <<"#">> \o packet.nsp \o <<"#">>
             msg == encode(<<uid(n), packet, opts>>)
         IN  IF "rooms" \in DOMAIN opts
             THEN [i \in 1..Len(opts.rooms) |->
                      [chn |-> chn \o opts.rooms[i] \o <<"#">>, msg |-> msg]]
             ELSE <<[chn |-> chn, msg |-> msg]>>

\* a broadcast that publishes before it calls the local broadcast: the packet
\* does not carry the namespace yet
broadcastPublishFirst(n, nsp, packet, opts, remote) ==
    [applied |-> AdapterBroadcast(nsp, packet, opts),
     pubs |-> publishes(n, packet, opts, remote)]

\* Redis.prototype.broadcast, lines 181-195: the local call and the publishes
broadcast(n, nsp, packet, opts, remote) ==
    LET loc == AdapterBroadcast(nsp, packet, opts)
    IN  [applied |-> loc, pubs |-> publishes(n, loc.packet, opts, remote)]

\* onmessage without the 'ignore same uid' return of line 125
onmessageNoUidCheck(n, nsp, chn, msg) ==
    IF ~channelMatches(chn, channel(nsp)) THEN [kind |-> "channel"]
    ELSE LET rest == Tail(decode(msg))
         IN  IF rest[1].nsp # nsp THEN [kind |-> "nsp"]
             ELSE [kind |-> "replay", b |-> broadcast(n, nsp, rest[1], rest[2], TRUE)]

\* onmessage without the channel test of line 119 and the namespace test of
\* lines 133-135
onmessageAnyNamespace(n, nsp, chn, msg) ==
    LET args == decode(msg)
        rest == Tail(args)
    IN  IF uid(n) = Head(args) THEN [kind |-> "uid"]
        ELSE [kind |-> "replay", b |-> broadcast(n, nsp, rest[1], rest[2], TRUE)]

\* Redis.prototype.onmessage, lines 118-140: why the message is ignored, or
\* the result of the replayed broadcast
onmessage(n, nsp, chn, msg) ==
    IF ~channelMatches(chn, channel(nsp)) THEN [kind |-> "channel"]
    ELSE LET args == decode(msg)
             rest == Tail(args)
             packet == IF rest[1].nsp = Undefined THEN [rest[1] EXCEPT !.nsp = RootNsp]
                       ELSE rest[1]
         IN  IF uid(n) = Head(args) THEN [kind |-> "uid"]
             ELSE IF packet.nsp # nsp THEN [kind |-> "nsp"]
             ELSE [kind |-> "replay", b |-> broadcast(n, nsp, packet, rest[2], TRUE)]

(***************************************************************************)
(* The application calls broadcast(packet, opts) on an adapter. The call   *)
(* is recorded with the channels it published on and with the other nodes  *)
(* that, at the call, have a member in one of the rooms named and hold the *)
(* channel of that room.                                                   *)
(***************************************************************************)
Hearing(n, nsp, opts) ==
    {m \in Nodes \ {n} :
        /\ "rooms" \in DOMAIN opts
        /\ \E i \in 1..Len(opts.rooms) :
              /\ opts.rooms[i] \in DOMAIN rooms[m][nsp]
              /\ roomChannel(nsp, opts.rooms[i]) \in subscribed[m]}

Broadcast(n, nsp, opts) ==
    /\ UNCHANGED qVars
    /\ nsp \in adapters[n]
    /\ LET id == Len(bcasts) + 1
           b == broadcast(n, nsp, [id |-> id, nsp |-> Undefined], opts, FALSE)
       IN  /\ applied' = [applied EXCEPT ![n][nsp] = Append(@, b.applied)]
           /\ pubQ' = [pubQ EXCEPT ![n] = @ \o b.pubs]
           /\ bcasts' = Append(bcasts, [n |-> n, nsp |-> nsp, opts |-> opts,
                                        chans |-> [i \in 1..Len(b.pubs) |-> b.pubs[i].chn],
                                        heard |-> Hearing(n, nsp, opts)])
           /\ npub' = Append(npub, Len(b.pubs))
           /\ echoes' = Append(echoes, 0)
    /\ nev' = nev + 1
    /\ UNCHANGED <<inbox, faults>>
    /\ UNCHANGED <<adapters, rooms, sids, subCmds, subscribed, ticks, delAlls, errors,
                   joined, nfail>>

(***************************************************************************)
(* Redis carries out the oldest publish of n's pub connection: every sub   *)
(* connection subscribed to exactly that channel is sent the message.      *)
(***************************************************************************)
BusPublish(n) ==
    /\ UNCHANGED qVars
    /\ pubQ[n] # <<>>
    /\ LET m == Head(pubQ[n])
       IN  inbox' = [r \in Nodes |->
                        IF m.chn \in subscribed[r] THEN Append(inbox[r], m) ELSE inbox[r]]
    /\ pubQ' = [pubQ EXCEPT ![n] = Tail(@)]
    /\ UNCHANGED <<bcasts, applied, npub, echoes, faults>>
    /\ UNCHANGED memVars

\* the oldest publish of n's pub connection fails (the connection dropped):
\* pub.publish is called without a callback, nothing is told to the adapter
PublishFail(n) ==
    /\ UNCHANGED qVars
    /\ pubQ[n] # <<>>
    /\ pubQ' = [pubQ EXCEPT ![n] = Tail(@)]
    /\ faults' = [faults EXCEPT !.lost = @ + 1]
    /\ nev' = nev + 1
    /\ UNCHANGED <<bcasts, applied, inbox, npub, echoes>>
    /\ UNCHANGED <<adapters, rooms, sids, subCmds, subscribed, ticks, delAlls, errors,
                   joined, nfail>>

\* the bus delivers the next message of n's sub connection one more time
Duplicate(n) ==
    /\ UNCHANGED qVars
    /\ inbox[n] # <<>>
    /\ nev' = nev + 1
    /\ inbox' = [inbox EXCEPT ![n] = <<Head(@)>> \o @]
    /\ faults' = [faults EXCEPT !.dup = @ + 1]
    /\ UNCHANGED <<bcasts, applied, pubQ, npub, echoes>>
    /\ UNCHANGED <<adapters, rooms, sids, subCmds, subscribed, ticks, delAlls, errors,
                   joined, nfail>>

(***************************************************************************)
(* n's sub connection emits subEvent: the onmessage handler of every       *)
(* adapter of the process runs (line 102).                                 *)
(***************************************************************************)
Deliver(n) ==
    /\ UNCHANGED qVars
    /\ inbox[n] # <<>>
    /\ ticks[n] = <<>>
    /\ LET m == Head(inbox[n])
           id == decode(m.msg)[2].id
           res == [nsp \in adapters[n] |-> onmessage(n, nsp, m.chn, m.msg)]
           replayed == {nsp \in adapters[n] : res[nsp].kind = "replay"}
           pubs == [nsp \in replayed |-> res[nsp].b.pubs]
       IN  /\ applied' = [applied EXCEPT ![n] =
                 [nsp \in Nsps |-> IF nsp \in replayed
                                   THEN Append(applied[n][nsp], res[nsp].b.applied)
                                   ELSE applied[n][nsp]]]
           /\ \E order \in Orders(replayed) :
                LET RECURSIVE all(_)
                    all(i) == IF i > Len(order) THEN <<>> ELSE pubs[order[i]] \o all(i + 1)
                IN  /\ pubQ' = [pubQ EXCEPT ![n] = @ \o all(1)]
                    /\ npub' = [npub EXCEPT ![id] = @ + Len(all(1))]
           /\ echoes' = [echoes EXCEPT ![id] =
                 @ + Cardinality({nsp \in adapters[n] : res[nsp].kind = "uid"})]
    /\ inbox' = [inbox EXCEPT ![n] = Tail(@)]
    /\ UNCHANGED <<bcasts, faults>>
    /\ UNCHANGED memVars

(***************************************************************************)
(* Listing the clients of the cluster.                                     *)
(***************************************************************************)
\* JSON.stringify / JSON.parse: a string holding the serialised value
stringify(v) == [json |-> v]

parse(msg) == msg.json

\* JSON.parse throws on a text that is no JSON
parses(msg) == "json" \in DOMAIN msg

\* this.syncChannel = prefix + '-sync#request'
syncChannel == prefix \o <<"-sync#request">>

\* one response channel for every call
responseChnShared(transaction) == prefix \o <<"-sync#response#">>

\* prefix + '-sync#response#' + transaction
responseChn(transaction) == prefix \o <<"-sync#response#">> \o transaction

\* the elements of a set in the order a for-in visits them
RECURSIVE Listed(_)
Listed(S) == IF S = {} THEN <<>> ELSE LET x == CHOOSE x \in S : TRUE IN <<x>> \o Listed(S \ {x})

\* the elements of list xs that are not in the set seen, each once
RECURSIVE Fresh(_, _)
Fresh(xs, seen) ==
    IF xs = <<>> THEN <<>>
    ELSE IF Head(xs) \in seen THEN Fresh(Tail(xs), seen)
    ELSE <<Head(xs)>> \o Fresh(Tail(xs), seen \cup {Head(xs)})

\* Adapter.prototype.clients.call(this, rooms, fn): the ids of the rooms,
\* each once, or every id known when no room is given
RECURSIVE InRooms(_, _)
InRooms(st, rs) ==
    IF rs = <<>> THEN <<>>
    ELSE Listed(Get(st.rooms, Head(rs), {})) \o InRooms(st, Tail(rs))

AdapterClients(st, rs) ==
    IF Len(rs) > 0 THEN Fresh(InRooms(st, rs), {}) ELSE Listed(DOMAIN st.sids)

\* the adapters of a process in the order they were constructed, which is
\* the order their handlers run in
Constructed(n) == Fresh(<<RootNsp, ChatNsp>>, Nsps \ adapters[n])

\* Redis.prototype.onclients, lines 148-170, on one adapter: the response it
\* publishes
\* publishes (from and t record who answers and which request), or the
\* ReferenceError of line 152: the catch block calls
\* self.emit, and no self is defined in the scope of onclients
onclients(n, nsp, msg) ==
    IF ~parses(msg) THEN [kind |-> "throw"]
    ELSE LET decoded == parse(msg)
         IN  [kind |-> "publish",
              chn |-> responseChn(decoded.transaction),
              msg |-> stringify([clients |-> AdapterClients(State(n, nsp), decoded.rooms)]),
              from |-> n, t |-> decoded.transaction]

\* a handler that keeps the last response only
onresponseOverwrite(q, msg) ==
    LET response == parse(msg)
        msg_count == q.msg_count + 1
        q2 == [q EXCEPT !.clients = response.clients, !.msg_count = msg_count,
                        !.recvd = Append(@, response.clients)]
    IN  IF msg_count = q.numsub
        THEN [q2 EXCEPT !.timer = IF @ = "armed" THEN "cleared" ELSE @,
                        !.conn = "closed",
                        !.cbs = Append(@, [err |-> "null", clients |-> response.clients,
                                           by |-> "count", got |-> msg_count])]
        ELSE q2

\* the handler of lines 330-340 on the variables q of one call; recvd lists
\* the responses handled so far
onresponse(q, msg) ==
    LET response == parse(msg)
        clients == q.clients \o response.clients
        msg_count == q.msg_count + 1
        q2 == [q EXCEPT !.clients = clients, !.msg_count = msg_count,
                        !.recvd = Append(@, response.clients)]
    IN  IF msg_count = q.numsub
        THEN [q2 EXCEPT !.timer = IF @ = "armed" THEN "cleared" ELSE @,
                        !.conn = "closed",
                        !.cbs = Append(@, [err |-> "null", clients |-> clients, by |-> "count",
                                           got |-> msg_count])]
        ELSE q2

\* a timer whose callback holds the list as it was when the timer was armed
ontimeoutStale(q) ==
    [q EXCEPT !.timer = "fired",
              !.cbs = Append(@, [err |-> "null", clients |-> <<>>, by |-> "timeout",
                                 got |-> Len(q.recvd)])]

\* the timer of lines 325-328 fires; got is the number of responses handled
\* by then
ontimeout(q) ==
    [q EXCEPT !.timer = "fired",
              !.cbs = Append(@, [err |-> "null", clients |-> q.clients, by |-> "timeout",
                                 got |-> Len(q.recvd)])]

\* Redis.prototype.clients, lines 291-304: a transaction is drawn, clientsSub
\* is opened and the subscriber count of the request channel is asked for
Clients(n, nsp, rs) ==
    /\ nsp \in adapters[n]
    /\ queries' = Append(queries,
          [n |-> n, nsp |-> nsp, rooms |-> rs, transaction |-> <<"t", Len(queries) + 1>>,
           phase |-> "numsub", numsub |-> 0, msg_count |-> 0, clients |-> <<>>,
           timer |-> "none", conn |-> "open", cbs |-> <<>>, recvd |-> <<>>,
           answers |-> [m \in Nodes |-> 0]])
    /\ respInbox' = Append(respInbox, <<>>)
    /\ nev' = nev + 1
    /\ UNCHANGED <<syncInbox, thrown, adapters, rooms, sids, subCmds, subscribed, ticks,
                   delAlls, errors, joined, nfail>>
    /\ UNCHANGED bcVars

\* lines 305-346, no error: the count is read, clientsSub subscribes
NumsubOk(k) ==
    /\ queries[k].phase = "numsub"
    /\ queries' = [queries EXCEPT ![k].numsub = Cardinality(Nodes), ![k].phase = "subscribing"]
    /\ UNCHANGED <<syncInbox, respInbox, thrown>>
    /\ UNCHANGED <<memVars, bcVars>>

\* lines 306-310: the count could not be read
NumsubFail(k) ==
    /\ queries[k].phase = "numsub"
    /\ queries' = [queries EXCEPT ![k].phase = "failed",
                      ![k].cbs = Append(@, [err |-> "err", clients |-> <<>>, by |-> "numsub",
                                           got |-> 0])]
    /\ errors' = [errors EXCEPT ![queries[k].n] = @ + 1]
    /\ nev' = nev + 1
    /\ UNCHANGED <<syncInbox, respInbox, thrown>>
    /\ UNCHANGED <<adapters, rooms, sids, subCmds, subscribed, ticks, delAlls, joined, nfail>>
    /\ UNCHANGED bcVars

\* lines 317-344: the subscription is confirmed; the timer is armed, the
\* handler registered and the request published to every syncSub connection
Subscribed(k) ==
    /\ queries[k].phase = "subscribing"
    /\ queries' = [queries EXCEPT ![k].phase = "waiting", ![k].timer = "armed",
                                  ![k].conn = "subscribed"]
    /\ LET request == stringify([transaction |-> queries[k].transaction,
                                 rooms |-> queries[k].rooms])
       IN  syncInbox' = [m \in Nodes |-> Append(syncInbox[m], request)]
    /\ UNCHANGED <<respInbox, thrown>>
    /\ UNCHANGED <<memVars, bcVars>>

\* n's syncSub connection emits subEvent: the onclients handler of every
\* adapter of the process runs (line 103), and redis sends each response to
\* the connections subscribed to its channel
OnClients(n) ==
    /\ syncInbox[n] # <<>>
    /\ LET order == Constructed(n)
           res == [i \in 1..Len(order) |-> onclients(n, order[i], Head(syncInbox[n]))]
           throws == {i \in 1..Len(order) : res[i].kind = "throw"}
           \* an exception ends the emit: the handlers after it do not run
           ran == IF throws = {} THEN res
                  ELSE SubSeq(res, 1, (CHOOSE i \in throws : \A j \in throws : i <= j) - 1)
           for(k) == SelectSeq(ran, LAMBDA r : r.chn = responseChn(queries[k].transaction))
       IN  /\ thrown' = [thrown EXCEPT ![n] = IF throws = {} THEN @ ELSE Append(@, "onclients")]
           /\ respInbox' = [k \in 1..Len(queries) |->
                 IF queries[k].conn = "subscribed" THEN respInbox[k] \o for(k) ELSE respInbox[k]]
           /\ queries' = [k \in 1..Len(queries) |->
                 [queries[k] EXCEPT !.answers[n] = @ + Len(for(k))]]
    /\ syncInbox' = [syncInbox EXCEPT ![n] = Tail(@)]
    /\ UNCHANGED <<memVars, bcVars>>

\* the clientsSub connection of call k emits subEvent
OnResponse(k) ==
    /\ respInbox[k] # <<>>
    /\ queries[k].conn = "subscribed"
    /\ queries' = [queries EXCEPT ![k] = onresponse(@, Head(respInbox[k]).msg)]
    /\ respInbox' = [respInbox EXCEPT ![k] = IF queries'[k].conn = "closed" THEN <<>> ELSE Tail(@)]
    /\ UNCHANGED <<syncInbox, thrown>>
    /\ UNCHANGED <<memVars, bcVars>>

\* five seconds have passed since the timer of call k was armed
Timeout(k) ==
    /\ queries[k].timer = "armed"
    /\ queries' = [queries EXCEPT ![k] = ontimeout(@)]
    /\ UNCHANGED <<syncInbox, respInbox, thrown>>
    /\ UNCHANGED <<memVars, bcVars>>

\* somebody publishes a text that is no JSON on the request channel: redis
\* sends it to every syncSub connection
Malformed ==
    /\ syncInbox' = [m \in Nodes |-> Append(syncInbox[m], [text |-> "?"])]
    /\ nev' = nev + 1
    /\ UNCHANGED <<queries, respInbox, thrown>>
    /\ UNCHANGED <<adapters, rooms, sids, subCmds, subscribed, ticks, delAlls, errors,
                   joined, nfail>>
    /\ UNCHANGED bcVars

\* the clientsSub connection of call k, opened at line 304, breaks and emits
\* 'error': no listener was registered for it, so the emit throws; when the
\* subscribe of line 346 was not confirmed yet, it never is
ClientsSubError(k) ==
    /\ queries[k].phase \in {"subscribing", "waiting"}
    /\ queries[k].conn \in {"open", "subscribed"}
    /\ queries' = [queries EXCEPT ![k].conn = "error",
                      ![k].phase = IF @ = "subscribing" THEN "lost" ELSE @]
    /\ thrown' = [thrown EXCEPT ![queries[k].n] = Append(@, "clientsSub")]
    /\ nev' = nev + 1
    /\ UNCHANGED <<syncInbox, respInbox>>
    /\ UNCHANGED <<adapters, rooms, sids, subCmds, subscribed, ticks, delAlls, errors,
                   joined, nfail>>
    /\ UNCHANGED bcVars

(***************************************************************************)
(* Every process has run adapter() and constructed the adapter of the root *)
(* namespace, and redis has confirmed the subscribe of its channel.        *)
(***************************************************************************)
Init ==
    /\ adapters = [n \in Nodes |-> {RootNsp}]
    /\ rooms = [n \in Nodes |-> [nsp \in Nsps |-> NoKeys]]
    /\ sids = [n \in Nodes |-> [nsp \in Nsps |-> NoKeys]]
    /\ subCmds = [n \in Nodes |-> <<>>]
    /\ subscribed = [n \in Nodes |-> {channel(RootNsp)}]
    /\ ticks = [n \in Nodes |-> <<>>]
    /\ delAlls = <<>>
    /\ errors = [n \in Nodes |-> 0]
    /\ joined = [n \in Nodes |-> [nsp \in Nsps |-> {}]]
    /\ nev = 0
    /\ nfail = 0
    /\ bcasts = <<>>
    /\ applied = [n \in Nodes |-> [nsp \in Nsps |-> <<>>]]
    /\ pubQ = [n \in Nodes |-> <<>>]
    /\ inbox = [n \in Nodes |-> <<>>]
    /\ npub = <<>>
    /\ echoes = <<>>
    /\ faults = [dup |-> 0, lost |-> 0]
    /\ queries = <<>>
    /\ syncInbox = [n \in Nodes |-> <<>>]
    /\ respInbox = <<>>
    /\ thrown = [n \in Nodes |-> <<>>]

vars == <<memVars, bcVars, qVars>>

\* Membership only: sockets join and leave, adapters are constructed.
NextMem ==
    \/ nev < MaxEvents /\ \E n \in Nodes, nsp \in Nsps : NewRedis(n, nsp)
    \/ nev < MaxEvents /\ \E n \in Nodes, nsp \in Nsps, room \in Rooms :
                            \E id \in SessionsOf(n) : Add(n, nsp, id, room)
    \/ nev < MaxEvents /\ \E n \in Nodes, nsp \in Nsps, room \in Rooms :
                            \E id \in SessionsOf(n) : Del(n, nsp, id, room)
    \/ nev < MaxEvents /\ \E n \in Nodes, nsp \in Nsps :
                            \E id \in SessionsOf(n) : DelAll(n, nsp, id)
    \/ nev < MaxEvents /\ \E n \in Nodes : SubFail(n)
    \/ \E n \in Nodes : RunTick(n)
    \/ \E n \in Nodes : SubAck(n)

SpecMem == Init /\ [][NextMem]_vars

\* Membership and broadcasts.
Next ==
    \/ NextMem
    \/ nev < MaxEvents /\ \E n \in Nodes, nsp \in Nsps, opts \in Opts : Broadcast(n, nsp, opts)
    \/ nev < MaxEvents /\ \E n \in Nodes : Duplicate(n)
    \/ \E n \in Nodes : BusPublish(n)
    \/ \E n \in Nodes : Deliver(n)

Spec == Init /\ [][Next]_vars

\* Membership and broadcasts over a bus that loses publishes.
NextLossy ==
    \/ nev < MaxEvents /\ \E n \in Nodes, nsp \in Nsps, room \in Rooms :
                            \E id \in SessionsOf(n) : Add(n, nsp, id, room)
    \/ nev < MaxEvents /\ \E n \in Nodes, nsp \in Nsps, room \in Rooms :
                            \E id \in SessionsOf(n) : Del(n, nsp, id, room)
    \/ nev < MaxEvents /\ \E n \in Nodes : SubFail(n)
    \/ nev < MaxEvents /\ \E n \in Nodes, nsp \in Nsps, opts \in Opts : Broadcast(n, nsp, opts)
    \/ nev < MaxEvents /\ \E n \in Nodes : PublishFail(n)
    \/ \E n \in Nodes : RunTick(n)
    \/ \E n \in Nodes : SubAck(n)
    \/ \E n \in Nodes : BusPublish(n)
    \/ \E n \in Nodes : Deliver(n)

SpecLossy == Init /\ [][NextLossy]_vars

\* The cluster while sockets only join: redis carries out every publish and
\* every process gets to emit the messages it was sent.
NextLive ==
    \/ nev < MaxEvents /\ \E n \in Nodes, nsp \in Nsps : NewRedis(n, nsp)
    \/ nev < MaxEvents /\ \E n \in Nodes, nsp \in Nsps, room \in Rooms :
                            \E id \in SessionsOf(n) : Add(n, nsp, id, room)
    \/ nev < MaxEvents /\ \E n \in Nodes : SubFail(n)
    \/ nev < MaxEvents /\ \E n \in Nodes, nsp \in Nsps, opts \in Opts : Broadcast(n, nsp, opts)
    \/ nev < MaxEvents /\ \E n \in Nodes : Duplicate(n)
    \/ \E n \in Nodes : SubAck(n)
    \/ \E n \in Nodes : BusPublish(n)
    \/ \E n \in Nodes : Deliver(n)

SpecLive ==
    /\ Init
    /\ [][NextLive]_vars
    /\ \A n \in Nodes : WF_vars(BusPublish(n)) /\ WF_vars(Deliver(n))

QIds == 1..Len(queries)

\* Sockets join, then the clients of the cluster are listed.
NextQ ==
    \/ nev < MaxEvents /\ \E n \in Nodes, nsp \in Nsps : NewRedis(n, nsp)
    \/ nev < MaxEvents /\ queries = <<>> /\ \E n \in Nodes, nsp \in Nsps, room \in Rooms :
                            \E id \in SessionsOf(n) : Add(n, nsp, id, room)
    \/ nev < MaxEvents /\ Len(queries) < MaxQueries
           /\ \E n \in Nodes, nsp \in Nsps, rs \in RoomLists : Clients(n, nsp, rs)
    \/ nev < MaxEvents /\ \E k \in QIds : NumsubFail(k)
    \/ \E k \in QIds : NumsubOk(k)
    \/ \E k \in QIds : Subscribed(k)
    \/ \E n \in Nodes : OnClients(n)
    \/ \E k \in QIds : OnResponse(k)
    \/ \E k \in QIds : Timeout(k)

SpecQ == Init /\ [][NextQ]_vars

\* Listing, where in addition the request channel carries texts that are
\* no requests and the connection of a call breaks.
NextQErr ==
    \/ NextQ
    \/ nev < MaxEvents /\ Malformed
    \/ nev < MaxEvents /\ \E k \in QIds : ClientsSubError(k)

SpecQErr == Init /\ [][NextQErr]_vars

\* Listing by several calls at a time.
NextQ2 ==
    \/ nev < MaxEvents /\ queries = <<>> /\ \E n \in Nodes, nsp \in Nsps, room \in Rooms :
                            \E id \in SessionsOf(n) : Add(n, nsp, id, room)
    \/ nev < MaxEvents /\ Len(queries) < MaxQueries + 1
           /\ \E n \in Nodes, nsp \in Nsps, rs \in RoomLists : Clients(n, nsp, rs)
    \/ \E k \in QIds : NumsubOk(k)
    \/ \E k \in QIds : Subscribed(k)
    \/ \E n \in Nodes : OnClients(n)
    \/ \E k \in QIds : OnResponse(k)
    \/ \E k \in QIds : Timeout(k)

SpecQ2 == Init /\ [][NextQ2]_vars

\* Listing, where redis answers, every process gets to emit the messages it
\* was sent, and an armed timer fires unless it is cleared.
SpecQLive ==
    /\ Init
    /\ [][NextQ]_vars
    /\ \A k \in 1..MaxQueries :
          /\ WF_vars(k \in QIds /\ NumsubOk(k))
          /\ WF_vars(k \in QIds /\ Subscribed(k))
          /\ WF_vars(k \in QIds /\ OnResponse(k))
          /\ WF_vars(k \in QIds /\ Timeout(k))
    /\ \A n \in Nodes : WF_vars(OnClients(n))

(***************************************************************************)
(* Properties.                                                             *)
(***************************************************************************)
BIds == 1..Len(bcasts)

\* the calls of Adapter.prototype.broadcast on adapter (n, nsp) with packet b
Applications(n, nsp, b) == {i \in 1..Len(applied[n][nsp]) : applied[n][nsp][i].packet.id = b}

TimesApplied(n, b) == [nsp \in Nsps |-> Cardinality(Applications(n, nsp, b))]

\* the rooms named by the options of broadcast b
TargetRooms(b) ==
    IF "rooms" \in DOMAIN bcasts[b].opts
    THEN {bcasts[b].opts.rooms[i] : i \in 1..Len(bcasts[b].opts.rooms)}
    ELSE {}

\* C1: a packet that a node broadcasts is applied to that node's local store
\* exactly once, by the broadcast call itself on the broadcasting adapter;
\* no delivery of its envelopes back to the node, duplicated or not, applies
\* it again on any adapter of the node.
SelfFiltering ==
    \A b \in BIds :
        TimesApplied(bcasts[b].n, b) = [nsp \in Nsps |-> IF nsp = bcasts[b].nsp THEN 1 ELSE 0]

\* two envelopes of one packet came back to the broadcasting node
SelfFilteringWitness ==
    \E b \in BIds : echoes[b] >= 2 /\ TimesApplied(bcasts[b].n, b)[bcasts[b].nsp] = 1

\* C2: a broadcast with a non-empty room list publishes one envelope per
\* room, on that room's channel; a broadcast with no room list or an empty
\* one publishes one envelope on the namespace channel.
PublishRouting ==
    \A b \in BIds :
        bcasts[b].chans =
            IF TargetRooms(b) # {}
            THEN [i \in 1..Len(bcasts[b].opts.rooms) |->
                     roomChannel(bcasts[b].nsp, bcasts[b].opts.rooms[i])]
            ELSE <<channel(bcasts[b].nsp)>>

\* the channels n's sub connection holds once its unanswered commands are
\* carried out
Subscriptions(n) == AfterCmds(subscribed[n], subCmds[n])

\* C3: as long as redis refuses no command, after every join, leave and
\* leaveAll a node is subscribed (its commands carried out in order) to the
\* channel of a room iff the room has a local member.
SubscriptionLifecycle ==
    nfail = 0 =>
        \A n \in Nodes : \A nsp \in adapters[n] : \A room \in Rooms :
            roomChannel(nsp, room) \in Subscriptions(n)
                <=> Get(rooms[n][nsp], room, {}) # {}

\* a member left a room that keeps another member and stays subscribed,
\* while another room was left by its last member and is unsubscribed
SubscriptionLifecycleWitness ==
    /\ nfail = 0
    /\ \E n \in Nodes, r1, r2 \in Rooms :
        /\ subCmds[n] = <<>>
        /\ Get(rooms[n][RootNsp], r1, {}) = {"s2"}
        /\ "s1" \in DOMAIN sids[n][RootNsp] /\ r1 \in joined[n][RootNsp]
        /\ sids[n][RootNsp]["s1"] = {}
        /\ roomChannel(RootNsp, r1) \in subscribed[n]
\* C7: a packet broadcast to rooms is applied on no other node that never
\* joined one of these rooms in that namespace, whatever else the node is
\* subscribed to.
FanOutContainment ==
    \A b \in BIds : \A m \in Nodes \ {bcasts[b].n} :
        (TargetRooms(b) # {} /\ TargetRooms(b) \cap joined[m][bcasts[b].nsp] = {})
            => TimesApplied(m, b) = [nsp \in Nsps |-> 0]

\* the envelope for room r reached the subscribers of r's channel, and a
\* node that holds the namespace channel only was not sent it
FanOutContainmentWitness ==
    \E b \in BIds : \E m \in Nodes \ {bcasts[b].n} :
        /\ Len(bcasts[b].chans) = 1 /\ TargetRooms(b) # {}
        /\ echoes[b] >= 1
        /\ channel(bcasts[b].nsp) \in subscribed[m]
        /\ joined[m][bcasts[b].nsp] = {}
        /\ pubQ[bcasts[b].n] = <<>> /\ inbox[m] = <<>>

\* C10: only the broadcasting node publishes envelopes of a packet: the
\* publishes carrying packet b, by all nodes, are those of the broadcast call,
\* and every envelope in flight carries the uid of the node that broadcast it.
NoRepublication ==
    /\ \A b \in BIds : npub[b] = Len(bcasts[b].chans)
    /\ \A n \in Nodes : \A i \in 1..Len(pubQ[n]) :
          decode(pubQ[n][i].msg)[1] = uid(n)
    /\ \A n \in Nodes : \A i \in 1..Len(inbox[n]) :
          LET e == decode(inbox[n][i].msg) IN e[1] = uid(bcasts[e[2].id].n)

\* another node replayed the packet, and nothing is left to publish
NoRepublicationWitness ==
    \E b \in BIds : \E m \in Nodes \ {bcasts[b].n} :
        /\ TimesApplied(m, b)[bcasts[b].nsp] >= 1
        /\ \A n \in Nodes : pubQ[n] = <<>> /\ inbox[n] = <<>>

\* the rooms of a socket id, none when it has no record
RoomsOf(n, nsp, id) == Get(sids[n][nsp], id, {})

\* C8: a join of a socket id to a room it is already a member of changes
\* neither the membership maps nor the subscriptions of the node; a leave of
\* a socket id from a room it is not a member of changes neither the rooms,
\* nor the rooms of any socket id, nor the subscriptions, sends no command
\* (also when the room keeps other members) and queues fn(null).
JoinLeaveIdempotence ==
    [][\A n \in Nodes, nsp \in Nsps, room \in Rooms : \A id \in SessionsOf(n) :
        /\ ( /\ Add(n, nsp, id, room)
             /\ id \in Get(rooms[n][nsp], room, {})
             /\ room \in RoomsOf(n, nsp, id)
             /\ roomChannel(nsp, room) \in Subscriptions(n) )
           => /\ rooms' = rooms /\ sids' = sids
              /\ Subscriptions(n)' = Subscriptions(n)
              /\ subscribed' = subscribed
        /\ ( /\ Del(n, nsp, id, room)
             /\ id \notin Get(rooms[n][nsp], room, {}) )
           => /\ rooms' = rooms
              /\ \A s \in Sessions : RoomsOf(n, nsp, s)' = RoomsOf(n, nsp, s)
              /\ subCmds' = subCmds /\ subscribed' = subscribed
              /\ ticks' = [ticks EXCEPT ![n] = Append(@, 0)]
      ]_vars

\* s2 joined a room twice and s1, not a member, left it: both subscribes
\* are on their way and the fn(null) of the leave is queued
JoinLeaveIdempotenceWitness ==
    \E n \in Nodes, room \in Rooms :
        /\ Cardinality({i \in 1..Len(subCmds[n]) :
              subCmds[n][i].op = "subscribe" /\ subCmds[n][i].chn = roomChannel(RootNsp, room)}) = 2
        /\ rooms[n][RootNsp] = [r \in {room} |-> {"s2"}]
        /\ ticks[n] = <<0>>
        /\ RoomsOf(n, RootNsp, "s1") = {} /\ "s1" \in DOMAIN sids[n][RootNsp]

\* m's adapter of the namespace applied packet b with the options of the call
Replayed(b, m) ==
    \E i \in 1..Len(applied[m][bcasts[b].nsp]) :
        applied[m][bcasts[b].nsp][i] =
            [packet |-> [id |-> b, nsp |-> bcasts[b].nsp], opts |-> bcasts[b].opts]

\* C9: when sockets only join, a packet that a node broadcasts to a room
\* while another node has a member in the room and a confirmed subscription
\* to the room's channel is eventually applied to that other node's local
\* store, with the same packet and options: again and again, every such
\* packet broadcast so far has been applied there.
CrossNodeDelivery ==
    []<>(\A b \in BIds : \A m \in bcasts[b].heard : Replayed(b, m))

\* a node with a member in a room replayed a packet broadcast to that room
CrossNodeDeliveryWitness ==
    \E b \in BIds : \E m \in Nodes \ {bcasts[b].n} :
        /\ m \in bcasts[b].heard
        /\ Replayed(b, m)

\* the number of times x occurs in the list xs
RECURSIVE Count(_, _)
Count(x, xs) == IF xs = <<>> THEN 0 ELSE (IF Head(xs) = x THEN 1 ELSE 0) + Count(x, Tail(xs))

\* the lists of xss, one after the other
RECURSIVE Flat(_)
Flat(xss) == IF xss = <<>> THEN <<>> ELSE Head(xss) \o Flat(Tail(xss))

\* the clients of every node for the rooms of call k, one node after the other
RECURSIVE ClusterClients(_, _)
ClusterClients(k, ns) ==
    IF ns = {} THEN <<>>
    ELSE LET n == CHOOSE n \in ns : TRUE
         IN  AdapterClients(State(n, queries[k].nsp), queries[k].rooms)
                 \o ClusterClients(k, ns \ {n})

\* every node published exactly one response to call k, and all of them were
\* handled before the timer fired
AllAnswered(k) ==
    /\ \A n \in Nodes : queries[k].answers[n] = 1
    /\ queries[k].msg_count = Cardinality(Nodes)
    /\ queries[k].timer # "fired"

\* C4: when every node answers a call exactly once before the deadline, fn is
\* called once, by the handler that counts the responses, with no error and
\* with a list holding the clients of every node for the rooms asked, each as
\* often as the nodes hold it; the timer is cleared and never fires.
ScatterGatherComplete ==
    \A k \in QIds : AllAnswered(k) =>
        /\ Len(queries[k].cbs) = 1
        /\ queries[k].cbs[1].err = "null" /\ queries[k].cbs[1].by = "count"
        /\ \A id \in Sessions :
              Count(id, queries[k].cbs[1].clients) = Count(id, ClusterClients(k, Nodes))
        /\ queries[k].timer = "cleared"

\* two nodes hold one socket each and a call without rooms returned both
ScatterGatherCompleteWitness ==
    \E k \in QIds :
        /\ AllAnswered(k)
        /\ queries[k].rooms = <<>>
        /\ \A n \in Nodes : Cardinality(DOMAIN sids[n][RootNsp]) = 1
        /\ Len(queries[k].cbs) = 1 /\ Len(queries[k].cbs[1].clients) = 2

\* C5: a call whose subscription was confirmed does not wait forever: when
\* the timer fires before the expected number of responses, fn is called with
\* no error and with the lists of the responses handled by then, one after
\* the other; and again and again every confirmed call has called fn.
PartialTimeout ==
    /\ [](\A k \in QIds : \A i \in 1..Len(queries[k].cbs) :
            queries[k].cbs[i].by = "timeout" =>
                /\ queries[k].cbs[i].err = "null"
                /\ queries[k].cbs[i].got < queries[k].numsub
                /\ queries[k].cbs[i].clients
                      = Flat(SubSeq(queries[k].recvd, 1, queries[k].cbs[i].got)))
    /\ []<>(\A k \in QIds : queries[k].timer # "none" => queries[k].cbs # <<>>)

\* the timer fired after one response with a client in it, one was missing
PartialTimeoutWitness ==
    \E k \in QIds :
        /\ queries[k].cbs # <<>>
        /\ queries[k].cbs[1].by = "timeout"
        /\ queries[k].cbs[1].got = 1
        /\ queries[k].cbs[1].clients # <<>>

\* C6: whenever fn has been called, the clientsSub connection of the call has
\* been unsubscribed and closed.
EphemeralReleased ==
    \A k \in QIds : queries[k].cbs # <<>> => queries[k].conn = "closed"

\* the nodes whose syncSub connection has still to emit a request of call k
RequestsInFlight(k) ==
    {n \in Nodes : \E i \in 1..Len(syncInbox[n]) :
        /\ parses(syncInbox[n][i])
        /\ parse(syncInbox[n][i]).transaction = queries[k].transaction}

\* C11: when the subscriber count cannot be read, fn is called exactly once,
\* with the error, the error is emitted, no request is published, no timer is
\* armed and nothing is tried again; and when the clientsSub connection of a
\* call breaks, fn is called with an error.
QueryFailureReported ==
    \A k \in QIds :
        /\ queries[k].phase = "failed" =>
              /\ Len(queries[k].cbs) = 1 /\ queries[k].cbs[1].err = "err"
              /\ errors[queries[k].n] >= 1
              /\ queries[k].timer = "none"
              /\ RequestsInFlight(k) = {} /\ \A n \in Nodes : queries[k].answers[n] = 0
        /\ queries[k].conn = "error" =>
              \E i \in 1..Len(queries[k].cbs) : queries[k].cbs[i].err = "err"

\* C12: when a node handles a request that cannot be decoded, the failure is
\* emitted as an 'error' event, no response is published and no exception
\* leaves the handler.
ResponderNonFatal ==
    [][\A n \in Nodes :
          (OnClients(n) /\ ~parses(Head(syncInbox[n])))
              => /\ errors'[n] = errors[n] + 1
                 /\ respInbox' = respInbox
                 /\ thrown' = thrown
      ]_vars

\* delAll number k called fn in this step, with no error
CalledBack(k) ==
    /\ k \in 1..Len(delAlls')
    /\ delAlls'[k].cbs = <<"null">>
    /\ k \in 1..Len(delAlls) => delAlls[k].cbs = <<>>

SingleCompletion ==
    \A k \in QIds :
        /\ Len(queries[k].cbs) <= 1
        /\ queries[k].timer = "fired" =>
              \A i \in 1..Len(queries[k].cbs) : queries[k].cbs[i].by = "timeout"

\* the sum of f over the set S
RECURSIVE Sum(_, _)
Sum(f, S) == IF S = {} THEN 0 ELSE LET x == CHOOSE x \in S : TRUE IN f[x] + Sum(f, S \ {x})

\* C15: once every node has handled the request of a call, each node has
\* published exactly one response to it, however many adapters its process
\* holds, so that the responses published equal the subscriber count that
\* the call read.
ExpectedCountMatches ==
    \A k \in QIds :
        (queries[k].timer # "none" /\ RequestsInFlight(k) = {}) =>
            /\ \A n \in Nodes : queries[k].answers[n] = 1
            /\ Sum(queries[k].answers, Nodes) = queries[k].numsub

\* C16: on every node, the local store of the adapter of a namespace is
\* handed only packets that were broadcast on that namespace: an envelope
\* published for one namespace is discarded by the adapters of the others
\* that share the sub connection.
NamespaceIsolation ==
    \A n \in Nodes, nsp \in Nsps : \A i \in 1..Len(applied[n][nsp]) :
        /\ applied[n][nsp][i].packet.nsp = nsp
        /\ bcasts[applied[n][nsp][i].packet.id].nsp = nsp

\* a process with two adapters was sent an envelope of the default namespace:
\* the adapter of that namespace replayed it, the other one did not
NamespaceIsolationWitness ==
    \E b \in BIds : \E m \in Nodes \ {bcasts[b].n} :
        /\ adapters[m] = Nsps
        /\ bcasts[b].nsp = RootNsp
        /\ TimesApplied(m, b) = [nsp \in Nsps |-> IF nsp = RootNsp THEN 1 ELSE 0]
        /\ inbox[m] = <<>> /\ pubQ[bcasts[b].n] = <<>>

\* the lists that an adapter of the cluster answers to the request of call k
AnswersTo(k) ==
    {AdapterClients(State(m, x), queries[k].rooms) : m \in Nodes, x \in Nsps}

\* C17: with several calls in flight, the clientsSub connection of a call is
\* sent only responses to the request of that call, published on the channel
\* of its transaction, and the call accumulates and counts only such
\* responses: each list it handled answers its own rooms, and it counted no
\* more responses than were published for its transaction.
QueryIsolation ==
    \A k \in QIds :
        /\ \A i \in 1..Len(respInbox[k]) :
              /\ respInbox[k][i].t = queries[k].transaction
              /\ respInbox[k][i].chn = responseChn(queries[k].transaction)
        /\ \A j \in 1..Len(queries[k].recvd) : queries[k].recvd[j] \in AnswersTo(k)
        /\ queries[k].msg_count = Len(queries[k].recvd)
        /\ queries[k].clients = Flat(queries[k].recvd)
        /\ queries[k].msg_count + Len(respInbox[k]) <= Sum(queries[k].answers, Nodes)

\* two calls that ask for different rooms wait at the same time and have each
\* handled a response, with different lists
QueryIsolationWitness ==
    \E k1, k2 \in QIds :
        /\ queries[k1].rooms # queries[k2].rooms
        /\ queries[k1].phase = "waiting" /\ queries[k2].phase = "waiting"
        /\ queries[k1].cbs = <<>> /\ queries[k2].cbs = <<>>
        /\ queries[k1].msg_count = 1 /\ queries[k2].msg_count = 1
        /\ queries[k1].clients # queries[k2].clients

\* C18: add and del change the local membership in the step that sends the
\* subscribe or unsubscribe; broadcast calls the local broadcast before it
\* publishes, so that every envelope is published on a channel of the
\* namespace the local call stamped on the packet; and in every state the
\* packet is applied on the adapter that broadcast it, with the options of
\* the call, whatever the subscriptions of the node and the bus have become.
LocalFirst ==
    /\ [][\A n \in Nodes, nsp \in Nsps, room \in Rooms : \A id \in SessionsOf(n) :
            /\ Add(n, nsp, id, room) =>
                  /\ id \in Get(rooms'[n][nsp], room, {})
                  /\ subCmds'[n] = Append(subCmds[n],
                        Cmd("subscribe", roomChannel(nsp, room), "add", nsp, 0))
            /\ Del(n, nsp, id, room) =>
                  /\ id \notin Get(rooms'[n][nsp], room, {})
                  /\ Len(subCmds'[n]) > Len(subCmds[n]) => room \notin DOMAIN rooms'[n][nsp]
         ]_vars
    /\ [](\A b \in BIds :
            /\ Replayed(b, bcasts[b].n)
            /\ \A j \in 1..Len(bcasts[b].chans) :
                  channelMatches(bcasts[b].chans[j], channel(bcasts[b].nsp)))

\* a node broadcast to a room it has a member in while its subscribe for the
\* room was not answered yet, and the publish failed
LocalFirstWitness ==
    \E b \in BIds : \E r \in TargetRooms(b) :
        /\ Get(rooms[bcasts[b].n][bcasts[b].nsp], r, {}) # {}
        /\ roomChannel(bcasts[b].nsp, r) \notin subscribed[bcasts[b].n]
        /\ subCmds[bcasts[b].n] # <<>>
        /\ faults.lost = 1 /\ pubQ[bcasts[b].n] = <<>>
        /\ Replayed(b, bcasts[b].n)

\* the socket ids that the adapters of namespace nsp know, on any node
KnownIn(nsp) == UNION {DOMAIN sids[n][nsp] : n \in Nodes}

\* C19: the list that a call on the adapter of a namespace hands to fn holds
\* only socket ids known to the adapters of that namespace in the cluster.
NamespaceScopedClients ==
    \A k \in QIds : \A i \in 1..Len(queries[k].cbs) :
        \A j \in 1..Len(queries[k].cbs[i].clients) :
            queries[k].cbs[i].clients[j] \in KnownIn(queries[k].nsp)

\* C20: as long as the bus delivers no message twice, a node other than the
\* one that broadcast a packet applies it to its local stores at most once,
\* also when it holds the channels of several of the rooms named.
AtMostOnceReplay ==
    faults.dup = 0 =>
        \A b \in BIds : \A m \in Nodes \ {bcasts[b].n} :
            Sum(TimesApplied(m, b), Nsps) <= 1

====
